---- MODULE Spec2Model ----
(***************************************************************************)
(* Character.fromFile and the Character accessors of src/src/index.ts.     *)
(*                                                                         *)
(* Text is a sequence of characters (one-character strings); bytes are     *)
(* integers 0..255.  Parsed JSON values are tagged records:                *)
(*   [t |-> "undefined"], [t |-> "null"], [t |-> "boolean", b |-> ...],    *)
(*   [t |-> "number", n |-> ...], [t |-> "string", s |-> ...],             *)
(*   [t |-> "object", f |-> <function from keys to values>].               *)
(* The library parsers (JSON.parse, json5.parse), Buffer's base64 and      *)
(* UTF-8 conversions, Number() and Uint8Array are computed on the          *)
(* characters, for the grammar subset the input catalogue uses: objects,   *)
(* strings without escapes, decimal integers, null/true/false, spaces.     *)
(***************************************************************************)
EXTENDS Integers, Sequences, FiniteSets, TLC

(***************************************************************************)
(* Characters                                                              *)
(***************************************************************************)
\* Printable ASCII, codes 32..126, in code order (code 96 is spelled out).
Ascii ==
  << " ", "!", "\"", "#", "$", "%", "&", "'", "(", ")", "*", "+", ",", "-", ".", "/",
     "0", "1", "2", "3", "4", "5", "6", "7", "8", "9", ":", ";", "<", "=", ">", "?",
     "@", "A", "B", "C", "D", "E", "F", "G", "H", "I", "J", "K", "L", "M", "N", "O",
     "P", "Q", "R", "S", "T", "U", "V", "W", "X", "Y", "Z", "[", "\\", "]", "^", "_",
     "<GRAVE>", "a", "b", "c", "d", "e", "f", "g", "h", "i", "j", "k", "l", "m", "n", "o",
     "p", "q", "r", "s", "t", "u", "v", "w", "x", "y", "z", "{", "|", "}", "~" >>

\* U+FEFF (byte order mark) and U+FFFD (replacement character).
BOM == "<FEFF>"
REPLACEMENT == "<FFFD>"
\* The control characters that are JSON white space.
TAB == "<TAB>"
LF == "<LF>"
CR == "<CR>"

Chr(c) == Ascii[c - 31]
Ord(ch) == CHOOSE c \in 32..126 : Ascii[c - 31] = ch

Digits == {"0", "1", "2", "3", "4", "5", "6", "7", "8", "9"}
DigitVal(ch) == Ord(ch) - 48
Letters == {Chr(c) : c \in (65..90) \cup (97..122)}
IdStart == Letters \cup {"_", "$"}
IdPart == IdStart \cup Digits

\* The JS string a character sequence spells.
RECURSIVE Join(_)
Join(cs) == IF cs = <<>> THEN "" ELSE Head(cs) \o Join(Tail(cs))

\* String.prototype.split(',') on a character sequence.
RECURSIVE SplitComma(_, _)
SplitComma(cs, cur) ==
  IF cs = <<>> THEN <<cur>>
  ELSE IF Head(cs) = "," THEN <<cur>> \o SplitComma(Tail(cs), <<>>)
  ELSE SplitComma(Tail(cs), Append(cur, Head(cs)))

(***************************************************************************)
(* JSON values                                                             *)
(***************************************************************************)
Undef == [t |-> "undefined"]
JNull == [t |-> "null"]
JBool(b) == [t |-> "boolean", b |-> b]
JNum(n) == [t |-> "number", n |-> n]
JStr(s) == [t |-> "string", s |-> s]
JObj(f) == [t |-> "object", f |-> f]

\* Property read v.k: a TypeError on null and undefined, undefined when absent.
CanRead(v) == v.t \notin {"null", "undefined"}
Get(v, k) == IF v.t = "object" /\ k \in DOMAIN v.f THEN v.f[k] ELSE Undef

\* ToBoolean.
Truthy(v) ==
  CASE v.t \in {"undefined", "null"} -> FALSE
    [] v.t = "boolean" -> v.b
    [] v.t = "number" -> v.n # 0
    [] v.t = "string" -> v.s # ""
    [] OTHER -> TRUE

\* a || b
Or(a, b) == IF Truthy(a) THEN a ELSE b

(***************************************************************************)
(* JSON.parse and json5.parse                                              *)
(***************************************************************************)
Fail == [ok |-> FALSE]
Ok(v, i) == [ok |-> TRUE, v |-> v, i |-> i]

\* White space: JSON5 also takes the byte order mark as white space.
Ws(five) == IF five THEN {" ", TAB, LF, CR, BOM} ELSE {" ", TAB, LF, CR}

RECURSIVE SkipWs(_, _, _)
SkipWs(s, i, five) ==
  IF i <= Len(s) /\ s[i] \in Ws(five) THEN SkipWs(s, i + 1, five) ELSE i

\* Index of the first q at or after i, 0 when there is none.
RECURSIVE ScanTo(_, _, _)
ScanTo(s, i, q) ==
  IF i > Len(s) THEN 0 ELSE IF s[i] = q THEN i ELSE ScanTo(s, i + 1, q)

\* A quoted string opening at i with quote s[i]; no escapes in the subset.
ParseString(s, i) ==
  LET j == ScanTo(s, i + 1, s[i])
  IN  IF j = 0 \/ \E k \in (i + 1)..(j - 1) : s[k] \in {"\\", LF, CR}
      THEN Fail
      ELSE Ok(Join(SubSeq(s, i + 1, j - 1)), j + 1)

RECURSIVE ScanWhile(_, _, _)
ScanWhile(s, i, set) ==
  IF i <= Len(s) /\ s[i] \in set THEN ScanWhile(s, i + 1, set) ELSE i

RECURSIVE DecimalOf(_, _)
DecimalOf(ds, acc) ==
  IF ds = <<>> THEN acc ELSE DecimalOf(Tail(ds), 10 * acc + DigitVal(Head(ds)))

\* -?(0|[1-9][0-9]*)
ParseNumber(s, i) ==
  LET neg == s[i] = "-"
      a == IF neg THEN i + 1 ELSE i
      b == ScanWhile(s, a, Digits)
  IN  IF b = a \/ (b - a > 1 /\ s[a] = "0") THEN Fail
      ELSE LET n == DecimalOf(SubSeq(s, a, b - 1), 0)
           IN  Ok(JNum(IF neg THEN 0 - n ELSE n), b)

StartsAt(s, i, w) == i + Len(w) - 1 <= Len(s) /\ SubSeq(s, i, i + Len(w) - 1) = w

ParseLiteral(s, i) ==
  CASE StartsAt(s, i, <<"n", "u", "l", "l">>) -> Ok(JNull, i + 4)
    [] StartsAt(s, i, <<"t", "r", "u", "e">>) -> Ok(JBool(TRUE), i + 4)
    [] StartsAt(s, i, <<"f", "a", "l", "s", "e">>) -> Ok(JBool(FALSE), i + 5)
    [] OTHER -> Fail

\* A member's key at i: a double-quoted string; with JSON5 also a
\* single-quoted string or an identifier.
ParseKey(s, i, five) ==
  CASE s[i] = "\"" -> ParseString(s, i)
    [] five /\ s[i] = "'" -> ParseString(s, i)
    [] five /\ s[i] \in IdStart ->
         LET j == ScanWhile(s, i, IdPart) IN Ok(Join(SubSeq(s, i, j - 1)), j)
    [] OTHER -> Fail

Put(f, k, v) == [x \in DOMAIN f \cup {k} |-> IF x = k THEN v ELSE f[x]]

RECURSIVE ParseValue(_, _, _)
RECURSIVE ParseMembers(_, _, _, _, _)

\* The members of an object from i (white space skipped), acc the members
\* read so far; afterComma says a comma was just read.
ParseMembers(s, i, five, acc, afterComma) ==
  IF i > Len(s) THEN Fail
  ELSE IF s[i] = "}"
  THEN IF afterComma /\ ~five THEN Fail ELSE Ok(JObj(acc), i + 1)
  ELSE LET k == ParseKey(s, i, five)
       IN  IF ~k.ok THEN Fail
           ELSE LET c == SkipWs(s, k.i, five)
                IN  IF c > Len(s) \/ s[c] # ":" THEN Fail
                    ELSE LET v == ParseValue(s, c + 1, five)
                         IN  IF ~v.ok THEN Fail
                             ELSE LET e == SkipWs(s, v.i, five)
                                      acc2 == Put(acc, k.v, v.v)
                                  IN  IF e > Len(s) THEN Fail
                                      ELSE IF s[e] = "}" THEN Ok(JObj(acc2), e + 1)
                                      ELSE IF s[e] = ","
                                      THEN ParseMembers(s, SkipWs(s, e + 1, five),
                                                        five, acc2, TRUE)
                                      ELSE Fail

ParseValue(s, i, five) ==
  LET j == SkipWs(s, i, five)
  IN  IF j > Len(s) THEN Fail
      ELSE CASE s[j] = "{" ->
                  ParseMembers(s, SkipWs(s, j + 1, five), five, <<>>, FALSE)
             [] s[j] = "\"" \/ (five /\ s[j] = "'") ->
                  LET r == ParseString(s, j)
                  IN  IF r.ok THEN Ok(JStr(r.v), r.i) ELSE Fail
             [] s[j] \in Digits \cup {"-"} -> ParseNumber(s, j)
             [] OTHER -> ParseLiteral(s, j)

\* A whole document: one value, then only white space.
ParseDoc(s, five) ==
  LET r == ParseValue(s, 1, five)
  IN  IF r.ok /\ SkipWs(s, r.i, five) > Len(s)
      THEN [ok |-> TRUE, v |-> r.v]
      ELSE Fail

JSONParse(text) == ParseDoc(text, FALSE)
JSON5Parse(text) == ParseDoc(text, TRUE)

(***************************************************************************)
(* Buffer, TextDecoder, Number, Uint8Array                                 *)
(***************************************************************************)
B64 ==
  << "A", "B", "C", "D", "E", "F", "G", "H", "I", "J", "K", "L", "M", "N", "O", "P",
     "Q", "R", "S", "T", "U", "V", "W", "X", "Y", "Z", "a", "b", "c", "d", "e", "f",
     "g", "h", "i", "j", "k", "l", "m", "n", "o", "p", "q", "r", "s", "t", "u", "v",
     "w", "x", "y", "z", "0", "1", "2", "3", "4", "5", "6", "7", "8", "9", "+", "/" >>

B64Chars == {B64[i] : i \in 1..64} \cup {"-", "_"}
B64Index(ch) ==
  CASE ch = "-" -> 62
    [] ch = "_" -> 63
    [] OTHER -> (CHOOSE i \in 1..64 : B64[i] = ch) - 1

\* Buffer.prototype.toString('base64').
RECURSIVE Base64Encode(_)
Base64Encode(bs) ==
  CASE Len(bs) = 0 -> <<>>
    [] Len(bs) = 1 ->
         << B64[(bs[1] \div 4) + 1], B64[(bs[1] % 4) * 16 + 1], "=", "=" >>
    [] Len(bs) = 2 ->
         << B64[(bs[1] \div 4) + 1],
            B64[(bs[1] % 4) * 16 + (bs[2] \div 16) + 1],
            B64[(bs[2] % 16) * 4 + 1], "=" >>
    [] OTHER ->
         << B64[(bs[1] \div 4) + 1],
            B64[(bs[1] % 4) * 16 + (bs[2] \div 16) + 1],
            B64[(bs[2] % 16) * 4 + (bs[3] \div 64) + 1],
            B64[(bs[3] % 64) + 1] >> \o Base64Encode(SubSeq(bs, 4, Len(bs)))

\* The sextets of a base64 text: it ends at the first "=", and characters
\* outside the alphabet are skipped.
RECURSIVE Sextets(_)
Sextets(cs) ==
  IF cs = <<>> \/ Head(cs) = "=" THEN <<>>
  ELSE IF Head(cs) \in B64Chars THEN <<B64Index(Head(cs))>> \o Sextets(Tail(cs))
  ELSE Sextets(Tail(cs))

RECURSIVE SextetsToBytes(_)
SextetsToBytes(q) ==
  CASE Len(q) <= 1 -> <<>>
    [] Len(q) = 2 -> << q[1] * 4 + (q[2] \div 16) >>
    [] Len(q) = 3 -> << q[1] * 4 + (q[2] \div 16), (q[2] % 16) * 16 + (q[3] \div 4) >>
    [] OTHER ->
         << q[1] * 4 + (q[2] \div 16),
            (q[2] % 16) * 16 + (q[3] \div 4),
            (q[3] % 4) * 64 + q[4] >> \o SextetsToBytes(SubSeq(q, 5, Len(q)))

\* Buffer.from(text, 'base64'): never throws.
Base64Decode(cs) == SextetsToBytes(Sextets(cs))

\* UTF-8 decoding that keeps a byte order mark (Buffer.toString('utf8'), and
\* TextDecoder with ignoreBOM: true): printable ASCII, the white-space
\* controls and EF BB BF decode to their character, any other byte to U+FFFD.
RECURSIVE Utf8Decode(_)
Utf8Decode(bs) ==
  IF bs = <<>> THEN <<>>
  ELSE IF Len(bs) >= 3 /\ SubSeq(bs, 1, 3) = <<239, 187, 191>>
  THEN <<BOM>> \o Utf8Decode(SubSeq(bs, 4, Len(bs)))
  ELSE LET b == Head(bs)
           ch == CASE b \in 32..126 -> Chr(b)
                   [] b = 9 -> TAB
                   [] b = 10 -> LF
                   [] b = 13 -> CR
                   [] OTHER -> REPLACEMENT
       IN  <<ch>> \o Utf8Decode(Tail(bs))

\* String.fromCharCode on each byte of a chunk.
RECURSIVE FromCharCodes(_)
FromCharCodes(bs) ==
  IF bs = <<>> THEN <<>>
  ELSE << IF Head(bs) \in 32..126 THEN Chr(Head(bs)) ELSE REPLACEMENT >>
       \o FromCharCodes(Tail(bs))

RECURSIVE Trim(_)
Trim(cs) ==
  IF cs # <<>> /\ Head(cs) = " " THEN Trim(Tail(cs))
  ELSE IF cs # <<>> /\ cs[Len(cs)] = " " THEN Trim(SubSeq(cs, 1, Len(cs) - 1))
  ELSE cs

NaN == [nan |-> TRUE, n |-> 0]

\* Number(token) on a decimal integer with an optional sign; the empty
\* (or blank) token is 0, anything else NaN.
Number(tok) ==
  LET t == Trim(tok)
      signed == t # <<>> /\ Head(t) \in {"-", "+"}
      ds == IF signed THEN Tail(t) ELSE t
  IN  IF t = <<>> THEN [nan |-> FALSE, n |-> 0]
      ELSE IF ds = <<>> \/ \E i \in 1..Len(ds) : ds[i] \notin Digits THEN NaN
      ELSE LET n == DecimalOf(ds, 0)
           IN  [nan |-> FALSE, n |-> IF Head(t) = "-" THEN 0 - n ELSE n]

\* Mutant: the conversion of a Uint8ClampedArray.
ToUint8Clamp(num) ==
  IF num.nan \/ num.n < 0 THEN 0 ELSE IF num.n > 255 THEN 255 ELSE num.n

\* The element conversion of new Uint8Array(numbers): NaN is 0, integers
\* wrap modulo 2^8.
ToUint8(num) == IF num.nan THEN 0 ELSE num.n % 256

\* data.split(',').map(Number) into new Uint8Array(...).
ByteArr(data) ==
  LET toks == SplitComma(data, <<>>)
  IN  [i \in 1..Len(toks) |-> ToUint8(Number(toks[i]))]

(***************************************************************************)
(* png-chunk-text                                                          *)
(***************************************************************************)
\* decode(data): the keyword up to the first NUL, the text after it.
ChunkTextDecode(data) ==
  LET z == ScanTo(data, 1, 0)
  IN  IF z = 0
      THEN [keyword |-> Join(FromCharCodes(data)), text |-> <<>>]
      ELSE [keyword |-> Join(FromCharCodes(SubSeq(data, 1, z - 1))),
            text |-> FromCharCodes(SubSeq(data, z + 1, Len(data)))]

(***************************************************************************)
(* The files handed to fromFile                                            *)
(*                                                                         *)
(* A card-writing tool serialises a document and embeds it; the operators  *)
(* below build those files.  They are not part of index.ts.                *)
(***************************************************************************)
\* The spelling of the strings the documents use.
Words ==
  ("" :> <<>>)
  @@ ("avatar" :> <<"a", "v", "a", "t", "a", "r">>)
  @@ ("name" :> <<"n", "a", "m", "e">>)
  @@ ("char_name" :> <<"c", "h", "a", "r", "_", "n", "a", "m", "e">>)
  @@ ("system_prompt" :> <<"s", "y", "s", "t", "e", "m", "_", "p", "r", "o", "m", "p", "t">>)
  @@ ("description" :> <<"d", "e", "s", "c", "r", "i", "p", "t", "i", "o", "n">>)
  @@ ("spec_version" :> <<"s", "p", "e", "c", "_", "v", "e", "r", "s", "i", "o", "n">>)
  @@ ("data" :> <<"d", "a", "t", "a">>)
  @@ ("none" :> <<"n", "o", "n", "e">>)
  @@ ("img" :> <<"i", "m", "g">>)
  @@ ("A" :> <<"A">>)
  @@ ("B" :> <<"B">>)
  @@ ("S" :> <<"S">>)
  @@ ("D" :> <<"D">>)
  @@ ("2.0" :> <<"2", ".", "0">>)
  @@ ("3.0" :> <<"3", ".", "0">>)

RECURSIVE DecimalChars(_)
DecimalChars(n) ==
  IF n < 0 THEN <<"-">> \o DecimalChars(0 - n)
  ELSE IF n < 10 THEN <<Chr(48 + n)>>
  ELSE DecimalChars(n \div 10) \o <<Chr(48 + (n % 10))>>

RECURSIVE JoinComma(_)
JoinComma(parts) ==
  IF parts = <<>> THEN <<>>
  ELSE IF Len(parts) = 1 THEN parts[1]
  ELSE parts[1] \o <<",">> \o JoinComma(Tail(parts))

KeyOrder ==
  <<"spec_version", "data", "name", "char_name", "system_prompt", "description",
    "avatar">>

\* The text of a value: strict JSON, or (five) the relaxed style some
\* encoders wrote: bare keys, single quotes, a trailing comma.
RECURSIVE Stringify(_, _)
Stringify(v, five) ==
  LET q == IF five THEN "'" ELSE "\""
      key(k) == IF five THEN Words[k] ELSE <<"\"">> \o Words[k] \o <<"\"">>
      keys == SelectSeq(KeyOrder, LAMBDA k : k \in DOMAIN v.f)
      members == [i \in 1..Len(keys) |->
                    key(keys[i]) \o <<":">> \o Stringify(v.f[keys[i]], five)]
  IN  CASE v.t = "null" -> <<"n", "u", "l", "l">>
        [] v.t = "boolean" -> IF v.b THEN <<"t", "r", "u", "e">>
                                     ELSE <<"f", "a", "l", "s", "e">>
        [] v.t = "number" -> DecimalChars(v.n)
        [] v.t = "string" -> <<q>> \o Words[v.s] \o <<q>>
        [] v.t = "object" ->
             <<"{">> \o JoinComma(members)
             \o (IF five /\ keys # <<>> THEN <<",">> ELSE <<>>) \o <<"}">>

RECURSIVE Utf8Encode(_)
Utf8Encode(cs) ==
  IF cs = <<>> THEN <<>> ELSE <<Ord(Head(cs))>> \o Utf8Encode(Tail(cs))

\* The comma-separated decimal byte list of a byte sequence.
ByteList(bs) == JoinComma([i \in 1..Len(bs) |-> DecimalChars(bs[i])])

ABSENT == "<absent>"

\* The object holding the fields of r that are not ABSENT, as strings.
MkDoc(r) ==
  JObj([k \in {x \in DOMAIN r : r[x] # ABSENT} |-> JStr(r[k])])

\* Metadata records: every combination of the fields the accessors read.
Records ==
  { MkDoc([avatar |-> a, name |-> n, char_name |-> c, system_prompt |-> s,
           description |-> d]) :
      a \in {ABSENT, "", "none", "img"}, n \in {ABSENT, "", "A"},
      c \in {ABSENT, "B"}, s \in {ABSENT, "", "S"}, d \in {ABSENT, "D"} }

SmallRecords ==
  { MkDoc([avatar |-> a, name |-> n, char_name |-> ABSENT, system_prompt |-> ABSENT,
           description |-> d]) :
      a \in {ABSENT, "none"}, n \in {ABSENT, "A"}, d \in {ABSENT, "D"} }

\* Envelopes: a spec_version and, possibly, a data field.
Envelopes ==
  { JObj(("spec_version" :> sv) @@ ("data" :> m)) :
      sv \in {JStr("2.0"), JStr("3.0"), JNum(2)},
      m \in {MkDoc([name |-> "A", avatar |-> "img"]), MkDoc([name |-> "B"]), JNull} }
  \cup { JObj(("spec_version" :> sv) @@ ("name" :> JStr("A"))) :
           sv \in {JStr("2.0"), JStr("3.0")} }
  \cup { JObj("data" :> MkDoc([name |-> "A"])) }

NonObjects == {JNull, JNum(0), JNum(7), JStr("A"), JBool(TRUE)}

\* Bounds of the input catalogue.
MaxTextChunks == 2
MaxValueLen == 2

None == [present |-> FALSE]
Some(v) == [present |-> TRUE, v |-> v]

\* All sequences over S of length at most n.
RECURSIVE SeqsUpTo(_, _)
SeqsUpTo(S, n) ==
  IF n = 0 THEN {<<>>}
  ELSE LET shorter == SeqsUpTo(S, n - 1)
       IN  shorter \cup {Append(q, e) : q \in shorter, e \in S}

\* --- application/json and unsupported types: the text, and the document
\* it was written from (doc, absent for text that is not a JSON document).
JsonDocs == Records \cup Envelopes \cup NonObjects

BadJsonTexts ==
  { <<>>, <<"{">>, Stringify(MkDoc([name |-> "A"]), TRUE),
    <<BOM>> \o Stringify(MkDoc([name |-> "A"]), FALSE) }

TextFiles(type, docs, bad) ==
  { [type |-> type, text |-> Stringify(d, FALSE), doc |-> Some(d)] : d \in docs }
  \cup { [type |-> type, text |-> t, doc |-> None] : t \in bad }

JsonFiles == TextFiles("application/json", JsonDocs, BadJsonTexts)

OtherTypes == {"", "text/plain", "image/jpeg", "application/JSON"}
OtherFiles ==
  UNION { TextFiles(ty, SmallRecords \cup {JNull}, {<<"{">>}) : ty \in OtherTypes }

\* --- image/png: the chunk list pngExtract yields for the file.
Chunk(name, data) == [name |-> name, data |-> data]
IHDR == Chunk("IHDR", <<0, 0, 0, 1, 0, 0, 0, 1, 8, 6, 0, 0, 0>>)
IDAT == Chunk("IDAT", <<120, 156, 99, 0, 1>>)
IEND == Chunk("IEND", <<>>)

\* png-chunk-text's encode(keyword, text).
TextChunk(keyword, text) ==
  Chunk("tEXt", Utf8Encode(keyword) \o <<0>> \o Utf8Encode(text))

Chara == <<"c", "h", "a", "r", "a">>
Comment == <<"C", "o", "m", "m", "e", "n", "t">>

PngCards ==
  { JObj(("spec_version" :> sv) @@ ("data" :> MkDoc([name |-> "B"]))) :
      sv \in {JStr("2.0"), JStr("3.0"), JNum(2)} }
  \cup { JObj(("spec_version" :> JStr("2.0")) @@ ("data" :> JNull)),
         JObj(("spec_version" :> JStr("2.0")) @@ ("name" :> JStr("A"))),
         JObj("data" :> MkDoc([name |-> "A"])),
         JNull, JNum(7),
         MkDoc([name |-> "A"]),
         MkDoc([char_name |-> "B", avatar |-> "none", description |-> "D"]) }

\* A text chunk with what it carries: card is the document embedded under
\* the chara keyword, absent for other keywords and for broken payloads.
TextChunkInputs ==
  { [chunk |-> TextChunk(Chara, Base64Encode(Utf8Encode(Stringify(d, FALSE)))),
     chara |-> TRUE, card |-> Some(d)] : d \in PngCards }
  \cup { [chunk |-> TextChunk(Chara, Base64Encode(Utf8Encode(<<"{", "o", "o", "p", "s">>))),
          chara |-> TRUE, card |-> None],
         [chunk |-> TextChunk(Chara, <<>>), chara |-> TRUE, card |-> None],
         [chunk |-> TextChunk(Comment, Base64Encode(Utf8Encode(
                                Stringify(MkDoc([name |-> "B"]), FALSE)))),
          chara |-> FALSE, card |-> None],
         [chunk |-> TextChunk(<<"C", "h", "a", "r", "a">>, <<"h", "i">>),
          chara |-> FALSE, card |-> None] }

PngFiles ==
  { [type |-> "image/png",
     chunks |-> <<IHDR>> \o [i \in 1..Len(ts) |-> ts[i].chunk] \o <<IDAT, IEND>>,
     texts |-> ts] : ts \in SeqsUpTo(TextChunkInputs, MaxTextChunks) }

\* --- image/webp: the file's bytes and the tags ExifReader's load yields.
RIFF == <<82, 73, 70, 70, 87, 69, 66, 80>>

WebpDoc == MkDoc([name |-> "A", avatar |-> "none"])

Descriptions ==
  { None, Some(<<>>), Some(<<"U", "n", "d", "e", "f", "i", "n", "e", "d">>),
    Some(Stringify(WebpDoc, TRUE)), Some(<<"{", "n", "a", "m", "e">>) }

Elements ==
  { <<>>,
    Stringify(MkDoc([name |-> "B"]), TRUE),
    Stringify(JNull, FALSE),
    <<"1", "2", "3">>,
    <<"a", "b", "c">>,
    ByteList(Utf8Encode(Stringify(MkDoc([name |-> "A"]), FALSE))),
    ByteList(<<239, 187, 191>> \o Utf8Encode(Stringify(JObj(<<>>), FALSE))),
    ByteList(Utf8Encode(<<"{", "\"">>)),
    <<"3", "7", "9", ",", "1", "2", "5">>,
    <<"-", "1", "3", "3", ",", "1", "2", "5">>,
    <<"1", "2", "3", ",", "x", ",", "1", "2", "5">> }

Values == {None} \cup {Some(q) : q \in SeqsUpTo(Elements, MaxValueLen)}

WebpFiles ==
  { [type |-> "image/webp", bytes |-> RIFF, exif |-> [UserComment |-> None]] }
  \cup { [type |-> "image/webp", bytes |-> RIFF,
          exif |-> [UserComment |-> Some([description |-> d, value |-> v])]] :
           d \in Descriptions, v \in Values }

Files == JsonFiles \cup PngFiles \cup WebpFiles \cup OtherFiles

\* The caller's direct uses of the constructor.
FallbackInputs == {Undef, JStr(""), JStr("none"), JStr("img")}

(***************************************************************************)
(* Character                                                               *)
(***************************************************************************)
\* constructor(metadata, fallbackAvatar = '')
NewCharacter(metadata, fallbackAvatar) ==
  [metadata |-> metadata,
   fallbackAvatar |-> IF fallbackAvatar = Undef THEN JStr("") ELSE fallbackAvatar]

\* Mutant: the "none" sentinel is not recognised.
AvatarNoSentinel(c) ==
  LET a == Get(c.metadata, "avatar")
  IN  IF Truthy(a) THEN a ELSE c.fallbackAvatar

\* get avatar()
Avatar(c) ==
  LET a == Get(c.metadata, "avatar")
  IN  IF Truthy(a) /\ a # JStr("none") THEN a ELSE c.fallbackAvatar

\* get description()
Description(c) ==
  Or(Or(Get(c.metadata, "system_prompt"), Get(c.metadata, "description")), JStr(""))

\* get name()
Name(c) ==
  Or(Or(Get(c.metadata, "name"), Get(c.metadata, "char_name")), JStr(""))

(***************************************************************************)
(* Errors and results                                                      *)
(***************************************************************************)
NoCharacterData == [name |-> "Error", message |-> "No character data found!"]
Unreachable == [name |-> "Error", message |-> "Statement should be unreachable"]
SyntaxError(parser) == [name |-> "SyntaxError", message |-> parser]
TypeError == [name |-> "TypeError", message |-> "Cannot read properties"]

Pending == [kind |-> "pending"]
Returned(c) == [kind |-> "returned", character |-> c]
Thrown(e) == [kind |-> "thrown", error |-> e]

\* The string `data:<mime>;base64,<base64 of the bytes>`, kept unencoded:
\* for PNG the bytes are pngEncode's serialisation of the chunk list.
DataUri(mime, payload) == [t |-> "string", mime |-> mime, base64of |-> payload]

(***************************************************************************)
(* Character.fromFile                                                      *)
(***************************************************************************)
VARIABLES
  pc,            \* where the call stands
  file,          \* the File argument (for New: the constructor's arguments)
  contentRead,   \* file.text() or file.arrayBuffer() has been called
  rawText,       \* json: the text read
  chunks,        \* png: pngExtract's chunks
  extChunk,      \* png: the decoded chara chunk
  card,          \* png: the parsed payload
  base64Avatar,  \* png, webp: the fallback avatar
  exifData,      \* webp: load's tags
  data,          \* webp: UserComment.value[0]
  attempts,      \* webp: the json5.parse calls made, in order
  result,        \* the promise: pending, a Character, or an error
  read           \* the last accessor read on the returned Character

vars ==
  <<pc, file, contentRead, rawText, chunks, extChunk, card, base64Avatar,
    exifData, data, attempts, result, read>>

NoFile == [type |-> "<none>"]

Init ==
  /\ pc = "idle"
  /\ file = NoFile
  /\ contentRead = FALSE
  /\ rawText = None
  /\ chunks = None
  /\ extChunk = None
  /\ card = None
  /\ base64Avatar = None
  /\ exifData = None
  /\ data = None
  /\ attempts = <<>>
  /\ result = Pending
  /\ read = None

\* Mutant: an unsupported type falls through to the JSON branch.
BranchDefaultJson(fileType) ==
  CASE fileType = "image/png" -> "png_arrayBuffer"
    [] fileType = "image/webp" -> "webp_arrayBuffer"
    [] OTHER -> "json_text"

VALID_FILE_TYPES == {"application/json", "image/png", "image/webp"}

\* switch (fileType)
Branch(fileType) ==
  CASE fileType = "application/json" -> "json_text"
    [] fileType = "image/png" -> "png_arrayBuffer"
    [] fileType = "image/webp" -> "webp_arrayBuffer"
    [] OTHER -> "unreachable"

\* The call, up to the first await or the default branch's throw.
FromFile(f) ==
  /\ pc = "idle"
  /\ file' = f
  /\ IF Branch(f.type) = "unreachable"
     THEN pc' = "done" /\ result' = Thrown(Unreachable)
     ELSE pc' = Branch(f.type) /\ result' = Pending
  /\ UNCHANGED <<contentRead, rawText, chunks, extChunk, card, base64Avatar,
                 exifData, data, attempts, read>>

\* --- case 'application/json'
JsonText ==
  /\ pc = "json_text"
  /\ contentRead' = TRUE
  /\ rawText' = Some(file.text)
  /\ pc' = "json_parse"
  /\ UNCHANGED <<file, chunks, extChunk, card, base64Avatar, exifData, data,
                 attempts, result, read>>

\* Mutant: the JSON branch unwraps a 2.0 envelope as the PNG branch does.
JsonCharacterUnwrap(text) ==
  LET r == JSONParse(text)
  IN  IF ~r.ok THEN Thrown(SyntaxError("JSON.parse"))
      ELSE IF Get(r.v, "spec_version") = JStr("2.0")
      THEN Returned(NewCharacter(Get(r.v, "data"), Undef))
      ELSE Returned(NewCharacter(r.v, Undef))

\* return new Character(JSON.parse(rawText))
JsonCharacter(text) ==
  LET r == JSONParse(text)
  IN  IF r.ok THEN Returned(NewCharacter(r.v, Undef))
      ELSE Thrown(SyntaxError("JSON.parse"))

JsonReturn ==
  /\ pc = "json_parse"
  /\ result' = JsonCharacter(rawText.v)
  /\ pc' = "done"
  /\ UNCHANGED <<file, contentRead, rawText, chunks, extChunk, card, base64Avatar,
                 exifData, data, attempts, read>>

\* --- case 'image/png'
PngArrayBuffer ==
  /\ pc = "png_arrayBuffer"
  /\ contentRead' = TRUE
  /\ pc' = "png_extract"
  /\ UNCHANGED <<file, rawText, chunks, extChunk, card, base64Avatar, exifData,
                 data, attempts, result, read>>

\* Mutant: the last chara chunk is taken.
FindCharaLast(cs) ==
  LET texts == SelectSeq(cs, LAMBDA c : c.name = "tEXt")
      decoded == [i \in 1..Len(texts) |-> ChunkTextDecode(texts[i].data)]
      hits == {i \in 1..Len(decoded) : decoded[i].keyword = "chara"}
  IN  IF hits = {} THEN None
      ELSE Some(decoded[CHOOSE i \in hits : \A j \in hits : i >= j])

\* chunks.filter(tEXt).map(decode).find(keyword === 'chara')
FindChara(cs) ==
  LET texts == SelectSeq(cs, LAMBDA c : c.name = "tEXt")
      decoded == [i \in 1..Len(texts) |-> ChunkTextDecode(texts[i].data)]
      hits == {i \in 1..Len(decoded) : decoded[i].keyword = "chara"}
  IN  IF hits = {} THEN None
      ELSE Some(decoded[CHOOSE i \in hits : \A j \in hits : i <= j])

PngExtract ==
  /\ pc = "png_extract"
  /\ chunks' = Some(file.chunks)
  /\ extChunk' = FindChara(file.chunks)
  /\ IF extChunk'.present
     THEN pc' = "png_card" /\ result' = result
     ELSE pc' = "done" /\ result' = Thrown(NoCharacterData)
  /\ UNCHANGED <<file, contentRead, rawText, card, base64Avatar, exifData, data,
                 attempts, read>>

\* JSON.parse(Buffer.from(extChunk.text, 'base64').toString('utf8'))
PngPayload(text) == JSONParse(Utf8Decode(Base64Decode(text)))

PngCard ==
  /\ pc = "png_card"
  /\ LET r == PngPayload(extChunk.v.text)
     IN  IF r.ok
         THEN card' = Some(r.v) /\ pc' = "png_avatar" /\ result' = result
         ELSE card' = card /\ pc' = "done"
              /\ result' = Thrown(SyntaxError("JSON.parse"))
  /\ UNCHANGED <<file, contentRead, rawText, chunks, extChunk, base64Avatar,
                 exifData, data, attempts, read>>

\* chunks.filter((chunk) => chunk.name !== 'tEXt')
PngChunks(cs) == SelectSeq(cs, LAMBDA c : c.name # "tEXt")

PngAvatar ==
  /\ pc = "png_avatar"
  /\ base64Avatar' = Some(DataUri("image/png", PngChunks(chunks.v)))
  /\ pc' = "png_return"
  /\ UNCHANGED <<file, contentRead, rawText, chunks, extChunk, card, exifData,
                 data, attempts, result, read>>

\* Mutant: any spec_version unwraps the envelope.
PngCharacterAnyVersion(c, avatar) ==
  IF ~CanRead(c) THEN Thrown(TypeError)
  ELSE IF Truthy(Get(c, "spec_version"))
  THEN Returned(NewCharacter(Get(c, "data"), avatar))
  ELSE Returned(NewCharacter(c, avatar))

\* if (card.spec_version === '2.0') return new Character(card.data, ...)
\* return new Character(card, ...)
PngCharacter(c, avatar) ==
  IF ~CanRead(c) THEN Thrown(TypeError)
  ELSE IF Get(c, "spec_version") = JStr("2.0")
  THEN Returned(NewCharacter(Get(c, "data"), avatar))
  ELSE Returned(NewCharacter(c, avatar))

PngReturn ==
  /\ pc = "png_return"
  /\ result' = PngCharacter(card.v, base64Avatar.v)
  /\ pc' = "done"
  /\ UNCHANGED <<file, contentRead, rawText, chunks, extChunk, card, base64Avatar,
                 exifData, data, attempts, read>>

\* --- case 'image/webp'
WebpArrayBuffer ==
  /\ pc = "webp_arrayBuffer"
  /\ contentRead' = TRUE
  /\ pc' = "webp_load"
  /\ UNCHANGED <<file, rawText, chunks, extChunk, card, base64Avatar, exifData,
                 data, attempts, result, read>>

WebpLoad ==
  /\ pc = "webp_load"
  /\ exifData' = Some(file.exif)
  /\ base64Avatar' = Some(DataUri("image/webp", file.bytes))
  /\ pc' = "webp_userComment"
  /\ UNCHANGED <<file, contentRead, rawText, chunks, extChunk, card, data,
                 attempts, result, read>>

\* Mutant: the value array is tried whenever the description is unusable.
RouteValueWithoutDescription(exif) ==
  LET uc == exif.UserComment
      usable == uc.v.description.present /\ uc.v.description.v # <<>>
  IN  IF ~uc.present THEN "none"
      ELSE IF usable /\ Join(uc.v.description.v) # "Undefined" THEN "description"
      ELSE IF /\ uc.v.value.present
              /\ Len(uc.v.value.v) = 1
              /\ uc.v.value.v[1] # <<>>
      THEN "value"
      ELSE "none"

\* The conditions of lines 132-147: which payload the tags offer.
Route(exif) ==
  LET uc == exif.UserComment
  IN  IF ~(uc.present /\ uc.v.description.present /\ uc.v.description.v # <<>>)
      THEN "none"
      ELSE IF Join(uc.v.description.v) # "Undefined" THEN "description"
      ELSE IF /\ uc.v.value.present
              /\ Len(uc.v.value.v) = 1
              /\ uc.v.value.v[1] # <<>>
      THEN "value"
      ELSE "none"

Attempt(step, text, r) == [step |-> step, text |-> text, ok |-> r.ok]

\* Mutant: a failed parse is reported as missing character data.
Json5CharacterNoData(text, avatar) ==
  LET r == JSON5Parse(text)
  IN  IF r.ok THEN Returned(NewCharacter(r.v, avatar))
      ELSE Thrown(NoCharacterData)

\* new Character(json5.parse(text), base64Avatar), or the parser's error.
Json5Character(text, avatar) ==
  LET r == JSON5Parse(text)
  IN  IF r.ok THEN Returned(NewCharacter(r.v, avatar))
      ELSE Thrown(SyntaxError("JSON5"))

WebpUserComment ==
  /\ pc = "webp_userComment"
  /\ LET route == Route(exifData.v)
         uc == exifData.v.UserComment.v
     IN  CASE route = "description" ->
                /\ attempts' = Append(attempts, Attempt("description",
                                        uc.description.v, JSON5Parse(uc.description.v)))
                /\ result' = Json5Character(uc.description.v, base64Avatar.v)
                /\ pc' = "done"
                /\ data' = data
           [] route = "value" ->
                /\ data' = Some(uc.value.v[1])
                /\ pc' = "webp_try"
                /\ UNCHANGED <<attempts, result>>
           [] OTHER ->
                /\ result' = Thrown(NoCharacterData)
                /\ pc' = "done"
                /\ UNCHANGED <<attempts, data>>
  /\ UNCHANGED <<file, contentRead, rawText, chunks, extChunk, card, base64Avatar,
                 exifData, read>>

\* Mutant: the byte list is tried even after the direct parse succeeded.
WebpTryThenBytes ==
  /\ pc = "webp_try"
  /\ attempts' = Append(attempts, Attempt("direct", data.v, JSON5Parse(data.v)))
  /\ pc' = "webp_catch"
  /\ UNCHANGED <<file, contentRead, rawText, chunks, extChunk, card, base64Avatar,
                 exifData, data, result, read>>

\* try { const card = json5.parse(data); return new Character(card, ...) }
WebpTry ==
  /\ pc = "webp_try"
  /\ LET r == JSON5Parse(data.v)
     IN  /\ attempts' = Append(attempts, Attempt("direct", data.v, r))
         /\ IF r.ok
            THEN result' = Json5Character(data.v, base64Avatar.v) /\ pc' = "done"
            ELSE result' = result /\ pc' = "webp_catch"
  /\ UNCHANGED <<file, contentRead, rawText, chunks, extChunk, card, base64Avatar,
                 exifData, data, read>>

\* utf8Decoder.decode(new Uint8Array(data.split(',').map(Number)))
Utf8Data(d) == Utf8Decode(ByteArr(d))

\* catch { ... json5.parse(utf8Data) ... }
WebpCatch ==
  /\ pc = "webp_catch"
  /\ LET utf8Data == Utf8Data(data.v)
     IN  /\ attempts' = Append(attempts, Attempt("bytes", utf8Data, JSON5Parse(utf8Data)))
         /\ result' = Json5Character(utf8Data, base64Avatar.v)
  /\ pc' = "done"
  /\ UNCHANGED <<file, contentRead, rawText, chunks, extChunk, card, base64Avatar,
                 exifData, data, read>>

\* --- the caller
\* new Character(metadata, fallbackAvatar) without a file.
New(metadata, fallbackAvatar) ==
  /\ pc = "idle"
  /\ file' = [type |-> "<constructor>", metadata |-> metadata,
               fallbackAvatar |-> fallbackAvatar]
  /\ result' = Returned(NewCharacter(metadata, fallbackAvatar))
  /\ pc' = "done"
  /\ UNCHANGED <<contentRead, rawText, chunks, extChunk, card, base64Avatar,
                 exifData, data, attempts, read>>

\* Reading an accessor of the Character: its value, or the TypeError of a
\* property read on null or undefined metadata.
Getter(c, prop) ==
  IF ~CanRead(c.metadata) THEN [prop |-> prop, kind |-> "raised", error |-> TypeError]
  ELSE [prop |-> prop, kind |-> "value",
        value |-> CASE prop = "avatar" -> Avatar(c)
                    [] prop = "description" -> Description(c)
                    [] prop = "name" -> Name(c)]

ReadAccessor(prop) ==
  /\ result.kind = "returned"
  /\ read' = Some(Getter(result.character, prop))
  /\ UNCHANGED <<pc, file, contentRead, rawText, chunks, extChunk, card,
                 base64Avatar, exifData, data, attempts, result>>

Next ==
  \/ \E f \in Files : FromFile(f)
  \/ JsonText
  \/ JsonReturn
  \/ PngArrayBuffer
  \/ PngExtract
  \/ PngCard
  \/ PngAvatar
  \/ PngReturn
  \/ WebpArrayBuffer
  \/ WebpLoad
  \/ WebpUserComment
  \/ WebpTry
  \/ WebpCatch
  \/ \E m \in Records, fb \in FallbackInputs : New(m, fb)
  \/ \E prop \in {"avatar", "description", "name"} : ReadAccessor(prop)

Spec == Init /\ [][Next]_vars

(***************************************************************************)
(* Properties                                                              *)
(***************************************************************************)
Done == pc = "done"
IsJson == file.type = "application/json"
IsPng == file.type = "image/png"
IsWebp == file.type = "image/webp"

\* The WebP file's UserComment tag and what it offers.
HasUserComment == IsWebp /\ file.exif.UserComment.present
UserComment == file.exif.UserComment.v
DescriptionUsable ==
  UserComment.description.present /\ UserComment.description.v # <<>>
DescriptionIsSentinel ==
  DescriptionUsable /\ Join(UserComment.description.v) = "Undefined"
SingleValue == UserComment.value.present /\ Len(UserComment.value.v) = 1
Element == UserComment.value.v[1]

Metadata == result.character.metadata
ReturnedWith(m, avatar) ==
  result = Returned([metadata |-> m, fallbackAvatar |-> avatar])
WebpAvatar == DataUri("image/webp", file.bytes)

\* C1 (as stated): a WebP file whose UserComment has an absent or empty
\* description and a one-element value holding valid permissive JSON yields
\* a Character whose metadata is the parse of that element.
C1_ValueStepWithoutDescription ==
  (/\ Done
   /\ HasUserComment
   /\ ~DescriptionUsable
   /\ SingleValue
   /\ JSON5Parse(Element).ok)
  => ReturnedWith(JSON5Parse(Element).v, WebpAvatar)

\* C1 (amended): a WebP file whose UserComment has an absent or empty
\* description fails with 'No character data found!' whatever value holds,
\* without any parse; the value element is parsed only when the description
\* is the sentinel "Undefined".
C1_ValueStepNeedsSentinel ==
  /\ (Done /\ HasUserComment /\ ~DescriptionUsable)
       => result = Thrown(NoCharacterData) /\ attempts = <<>> /\ data = None
  /\ (IsWebp /\ (data # None \/ \E i \in DOMAIN attempts : attempts[i].step = "direct"))
       => HasUserComment /\ DescriptionIsSentinel

C1_Witness ==
  /\ Done
  /\ HasUserComment
  /\ ~DescriptionUsable
  /\ SingleValue
  /\ JSON5Parse(Element).ok
  /\ result = Thrown(NoCharacterData)

\* Every parse the chain attempts on this file fails.
EveryParseFails ==
  /\ HasUserComment
  /\ DescriptionUsable
  /\ IF ~DescriptionIsSentinel
     THEN ~JSON5Parse(UserComment.description.v).ok
     ELSE /\ SingleValue
          /\ Element # <<>>
          /\ ~JSON5Parse(Element).ok
          /\ ~JSON5Parse(Utf8Decode(ByteArr(Element))).ok

\* The tags offer no payload: no usable description, or the sentinel with a
\* value that is absent, not of length 1, or holds an empty element.
NoPayload ==
  \/ ~HasUserComment
  \/ ~DescriptionUsable
  \/ DescriptionIsSentinel /\ (~SingleValue \/ Element = <<>>)

\* C2 (as stated): whenever the WebP chain is exhausted (no payload offered,
\* or every attempted parse failing) the error is 'No character data found!'.
C2_ExhaustedIsNoCharacterData ==
  (Done /\ IsWebp /\ (NoPayload \/ EveryParseFails))
  => result = Thrown(NoCharacterData)

\* C2 (amended): a WebP file fails with 'No character data found!' exactly
\* when the tags offer no payload; when every attempted parse fails, the
\* permissive parser's SyntaxError is raised instead; a Character is
\* returned in neither case.
C2_NoPayloadOrSyntaxError ==
  (Done /\ IsWebp)
  => /\ (result = Thrown(NoCharacterData)) <=> NoPayload
     /\ EveryParseFails <=> (result = Thrown(SyntaxError("JSON5")))
     /\ (NoPayload \/ EveryParseFails) <=> (result.kind = "thrown")

C2_Witness ==
  /\ Done
  /\ IsWebp
  /\ EveryParseFails
  /\ Len(attempts) = 2
  /\ result = Thrown(SyntaxError("JSON5"))

\* C3: with description "Undefined" and one non-empty value element, the
\* description is never parsed; the element is parsed directly first, and a
\* success ends the decoding with that result; the byte list is decoded only
\* after the direct parse failed, and then the metadata is the parse of the
\* UTF-8 text of those bytes.
C3_DecodeOrder ==
  (HasUserComment /\ DescriptionIsSentinel /\ SingleValue /\ Element # <<>>)
  => LET direct == JSON5Parse(Element)
         text == Utf8Decode(ByteArr(Element))
         bytes == JSON5Parse(text)
     IN  /\ \A i \in DOMAIN attempts : attempts[i].step # "description"
         /\ Len(attempts) <= 2
         /\ Len(attempts) >= 1
              => attempts[1] = [step |-> "direct", text |-> Element, ok |-> direct.ok]
         /\ Len(attempts) = 2
              => /\ ~direct.ok
                 /\ attempts[2] = [step |-> "bytes", text |-> text, ok |-> bytes.ok]
         /\ Done
              => IF direct.ok
                 THEN Len(attempts) = 1 /\ ReturnedWith(direct.v, WebpAvatar)
                 ELSE /\ Len(attempts) = 2
                      /\ bytes.ok => ReturnedWith(bytes.v, WebpAvatar)
                      /\ ~bytes.ok => result.kind = "thrown"

C3_Witness ==
  /\ Done
  /\ HasUserComment
  /\ DescriptionIsSentinel
  /\ Len(attempts) = 2
  /\ ~attempts[1].ok
  /\ attempts[2].step = "bytes"
  /\ result.kind = "returned"
  /\ Metadata = MkDoc([name |-> "A"])

\* The PNG file's chara chunks, in chunk order, and the document the first
\* one carries.
CharaInputs == SelectSeq(file.texts, LAMBDA t : t.chara)
HasChara == IsPng /\ CharaInputs # <<>>
FirstCard == CharaInputs[1].card
PngAvatarOf == DataUri("image/png", <<IHDR, IDAT, IEND>>)

\* C4: for a PNG whose chara chunk holds a JSON object P, the metadata is
\* P.data if and only if P.spec_version is the string "2.0", and P itself
\* otherwise.
C4_EnvelopeUnwrapping ==
  (Done /\ HasChara /\ FirstCard.present /\ FirstCard.v.t = "object")
  => LET P == FirstCard.v
         isV2 == "spec_version" \in DOMAIN P.f /\ P.f["spec_version"] = JStr("2.0")
         dataOf == IF "data" \in DOMAIN P.f THEN P.f["data"] ELSE Undef
     IN  /\ result.kind = "returned"
         /\ isV2 => ReturnedWith(dataOf, PngAvatarOf)
         /\ ~isV2 => ReturnedWith(P, PngAvatarOf)
         /\ (Metadata = dataOf) <=> isV2

C4_Witness ==
  /\ Done
  /\ HasChara
  /\ FirstCard = Some(JObj(("spec_version" :> JStr("2.0"))
                           @@ ("data" :> MkDoc([name |-> "B"]))))
  /\ result.kind = "returned"
  /\ Metadata = MkDoc([name |-> "B"])

\* C5: a PNG fails with 'No character data found!' exactly when no tEXt
\* chunk has the keyword chara, before the payload is decoded or the avatar
\* built; otherwise the first chara chunk supplies the payload and a later
\* failure is a decoding error.
C5_NoCharaChunk ==
  IsPng
  => LET located == pc \notin {"png_arrayBuffer", "png_extract"}
     IN  /\ (result = Thrown(NoCharacterData))
              => ~HasChara /\ card = None /\ base64Avatar = None
         /\ (located /\ ~HasChara) => result = Thrown(NoCharacterData)
         /\ (located /\ HasChara)
              => /\ extChunk.present
                 /\ extChunk.v.keyword = "chara"
                 /\ extChunk.v = ChunkTextDecode(CharaInputs[1].chunk.data)
                 /\ (card.present /\ FirstCard.present) => card = FirstCard
                 /\ result.kind = "thrown"
                      => result.error.name \in {"SyntaxError", "TypeError"}

C5_Witness ==
  /\ IsPng
  /\ Len(file.texts) >= 1
  /\ ~HasChara
  /\ result = Thrown(NoCharacterData)

\* C6: a file whose type is none of the three supported ones is rejected
\* with an error before its content is read, and no Character is returned.
C6_UnsupportedTypeRejected ==
  (file.type \notin VALID_FILE_TYPES \cup {"<none>", "<constructor>"})
  => /\ result = Thrown(Unreachable)
     /\ ~contentRead
     /\ rawText = None
     /\ chunks = None
     /\ exifData = None

C6_Witness ==
  /\ file.type = ""
  /\ Done
  /\ result.kind = "thrown"
  /\ ~contentRead

\* What the accessors are to return on a record of string fields.
NonEmpty(m, k) == k \in DOMAIN m.f /\ m.f[k] # JStr("")
Expected(m, fallback, prop) ==
  CASE prop = "avatar" ->
         IF NonEmpty(m, "avatar") /\ m.f["avatar"] # JStr("none")
         THEN m.f["avatar"] ELSE fallback
    [] prop = "description" ->
         IF NonEmpty(m, "system_prompt") THEN m.f["system_prompt"]
         ELSE IF NonEmpty(m, "description") THEN m.f["description"]
         ELSE JStr("")
    [] prop = "name" ->
         IF NonEmpty(m, "name") THEN m.f["name"]
         ELSE IF NonEmpty(m, "char_name") THEN m.f["char_name"]
         ELSE JStr("")

\* C7: on every metadata record and fallback given to the constructor,
\* avatar is metadata.avatar when non-empty and not "none", else the fallback
\* ("" when none was given); description is system_prompt, else description,
\* else ""; name is name, else char_name, else "".
C7_Accessors ==
  (file.type = "<constructor>" /\ read.present)
  => LET given == file.fallbackAvatar
         fallback == IF given = Undef THEN JStr("") ELSE given
     IN  read.v = [prop |-> read.v.prop, kind |-> "value",
                   value |-> Expected(file.metadata, fallback, read.v.prop)]

C7_Witness ==
  /\ file.type = "<constructor>"
  /\ read.present
  /\ read.v.prop = "avatar"
  /\ Get(file.metadata, "avatar") = JStr("none")
  /\ file.fallbackAvatar = JStr("img")
  /\ read.v.value = JStr("img")

\* C8: reading avatar, description or name of a Character that fromFile
\* returned never raises.
C8_AccessorsNeverRaise ==
  (file.type \in VALID_FILE_TYPES /\ read.present) => read.v.kind = "value"

\* C9: a JSON file holding document D yields a Character whose metadata is D
\* itself, enveloped or not, with no fallback avatar: avatar reads "" when
\* D.avatar is empty, missing or "none".
C9_JsonIdentity ==
  (Done /\ IsJson /\ file.doc.present)
  => LET D == file.doc.v
     IN  /\ ReturnedWith(D, JStr(""))
         /\ (/\ read.present
             /\ read.v.prop = "avatar"
             /\ CanRead(D)
             /\ Get(D, "avatar") \in {Undef, JStr(""), JStr("none")})
              => read.v = [prop |-> "avatar", kind |-> "value", value |-> JStr("")]

C9_Witness ==
  /\ Done
  /\ IsJson
  /\ file.doc = Some(JObj(("spec_version" :> JStr("2.0"))
                          @@ ("data" :> MkDoc([name |-> "A", avatar |-> "img"]))))
  /\ Metadata = file.doc.v
  /\ read = Some([prop |-> "avatar", kind |-> "value", value |-> JStr("")])

\* The tokens of the byte list, and those that are no integer in 0..255.
Tokens == SplitComma(data.v, <<>>)
OutOfRange(tok) == Number(tok).nan \/ Number(tok).n \notin 0..255
Wrapped(tok) ==
  IF Number(tok).nan THEN 0
  ELSE CHOOSE b \in 0..255 : \E k \in -4..4 : Number(tok).n = b + 256 * k

\* C10 (as stated): in the byte-list step an element that is no integer in
\* 0..255 makes the extraction fail.
C10_OutOfRangeRejected ==
  (/\ Done
   /\ IsWebp
   /\ Len(attempts) = 2
   /\ \E i \in DOMAIN Tokens : OutOfRange(Tokens[i]))
  => result.kind = "thrown"

\* C10 (amended): in the byte-list step an integer outside 0..255 is taken
\* modulo 256 and a non-numeric element as 0; the bytes so obtained are
\* decoded and parsed, and the extraction fails only when that parse fails.
C10_OutOfRangeWraps ==
  (IsWebp /\ Len(attempts) = 2)
  => LET text == Utf8Decode([i \in DOMAIN Tokens |-> Wrapped(Tokens[i])])
         r == JSON5Parse(text)
     IN  /\ attempts[2] = [step |-> "bytes", text |-> text, ok |-> r.ok]
         /\ Done => IF r.ok THEN ReturnedWith(r.v, WebpAvatar)
                            ELSE result = Thrown(SyntaxError("JSON5"))

C10_Witness ==
  /\ Done
  /\ IsWebp
  /\ Len(attempts) = 2
  /\ \E i \in DOMAIN Tokens : ~Number(Tokens[i]).nan /\ Number(Tokens[i]).n > 255
  /\ result.kind = "returned"

====
